---- MODULE Spec2Model ----
(***************************************************************************)
(* Session supervisor of the object-detection backend: the Flask handlers  *)
(* /start and /stop (app.py), the heartbeat monitor thread                 *)
(* (app.monitor_detector), the detector singleton and its detection-loop   *)
(* threads (detector.ObjectDetector), and the generator that streams the   *)
(* latest frame (app.generate_frames).                                     *)
(*                                                                         *)
(* Threads interleave at function-call boundaries and at blocking calls    *)
(* (model load, cv2.VideoCapture, cap.read, inference, time.sleep): each   *)
(* action below is the block of statements a thread runs between two such  *)
(* points.  stop_detection() does not join the loop thread, so several     *)
(* loop threads can be alive; they all use the one detector object.        *)
(***************************************************************************)
EXTENDS Integers, Sequences, FiniteSets, TLC

VARIABLES
    detection_active,        \* app.detection_active
    monitoring_active,       \* app.monitoring_active
    current_settings,        \* app.current_settings (NoSettings is None)
    latest_frame,            \* app.latest_frame (None or a frame)
    is_running,              \* detector.is_running
    cap,                     \* detector.cap: None, "open" or "closed" (an object, isOpened() false)
    model,                   \* detector.model is not None
    frame_callback,          \* detector.frame_callback is not None
    cfg,                     \* detector.stream_url, ntfy_topic, ... (fields set from settings)
    last_notification_time,  \* detector.last_notification_time: class -> timestamp
    sent,                    \* the requests.post calls of send_notification, in order
    logged,                  \* the requests.post calls of log_detection, in order
    feed,                    \* a generate_frames generator: position and locals
    latest_frame_lock,       \* app.latest_frame_lock: None (free) or its holder
    last_heartbeat,          \* detector.last_heartbeat
    loops,                   \* the detection_loop threads: position and locals
    req,                     \* the HTTP request threads: position, call and response
    mon,                     \* position of the monitor_detector thread
    now                      \* time.time()

vars == <<detection_active, monitoring_active, current_settings, latest_frame,
          is_running, cap, model, frame_callback, cfg, last_notification_time, sent,
          last_heartbeat, loops, req, mon, now, logged, feed, latest_frame_lock>>

----------------------------------------------------------------------------
(* Bounds of the model. *)
MaxLoops == 2
MaxRequests == 1
MaxTime == 70
MaxReadFailures == 21
MaxLogged == 3

(* Program constants. *)
max_consecutive_errors == 10
max_reconnect_attempts == 5
notification_cooldown == 60
heartbeat_interval == 5

LoopIds == 1..MaxLoops
ReqIds == 1..MaxRequests

None == "None"
Frame == "frame"
Unbound == "unbound"
NoSettings == [none |-> TRUE]

----------------------------------------------------------------------------
(* Request bodies of POST /start. *)
SettingsA ==
    [ipCameraUrl |-> "webcam://0", ntfyTopic |-> "alerts",
     ntfyPriority |-> "default", enablePersonDetection |-> TRUE]
SettingsB ==
    [ipCameraUrl |-> "cam", ntfyPriority |-> "high"]
SettingsEmptyUrl ==
    [ipCameraUrl |-> "", ntfyTopic |-> "alerts"]
SettingsNoUrl ==
    [ntfyTopic |-> "alerts"]
NoBody == NoSettings
RequestBodies == {SettingsA, SettingsB, SettingsEmptyUrl, SettingsNoUrl, NoBody}

(* Labels a frame's detections can carry, and the detections of one frame    *)
(* (the classes of the boxes, in the order of the results).                   *)
Classes == {"person", "car"}
FrameDetections ==
    {<< >>, <<"person">>, <<"car">>, <<"car", "car">>, <<"person", "car">>}
SupervisorDetections == {<< >>, <<"person">>}
OtherDetections == {<< >>, <<"car">>}

(* dict.get(key, default) *)
Get(s, k, default) == IF k \in DOMAIN s THEN s[k] ELSE default

(* Python truth value of None or a string. *)
Truthy(v) == v # None /\ v # ""

(* settings['enablePersonDetection'] = settings.get('enablePersonDetection', True) *)
WithPersonDefault(s) ==
    [k \in DOMAIN s \cup {"enablePersonDetection"} |->
        IF k \in DOMAIN s THEN s[k] ELSE TRUE]

(* The stream locator start_detection derives from ipCameraUrl and            *)
(* ipCameraPort, on the locators of RequestBodies (none of them gives a port): *)
(* webcam://N is the device index N, a bare host gets the http:// prefix.      *)
StreamUrl(camera_url, camera_port) ==
    CASE camera_url = "webcam://0" -> "index:0"
      [] camera_url = "cam" /\ ~Truthy(camera_port) -> "http://cam"
      [] camera_url = "" /\ ~Truthy(camera_port) -> "http://"
      [] OTHER -> camera_url

(* The detector fields start_detection sets from the settings. *)
ConfigOf(s) ==
    [stream_url |-> StreamUrl(Get(s, "ipCameraUrl", ""), Get(s, "ipCameraPort", "")),
     ntfy_topic |-> Get(s, "ntfyTopic", None),
     ntfy_priority |-> Get(s, "ntfyPriority", "default"),
     enable_person_detection |-> Get(s, "enablePersonDetection", TRUE),
     user_id |-> Get(s, "userId", "unknown-user"),
     supabase_url |-> Get(s, "supabaseUrl", None),
     supabase_key |-> Get(s, "supabaseKey", None),
     enable_logging |-> Get(s, "enableLogging", FALSE)]

(* ObjectDetector.__init__ *)
InitialConfig ==
    [stream_url |-> None, ntfy_topic |-> None, ntfy_priority |-> "default",
     enable_person_detection |-> TRUE, user_id |-> None, supabase_url |-> None,
     supabase_key |-> None, enable_logging |-> FALSE]

----------------------------------------------------------------------------
(* Notification throttling: detector.process_detections. *)

EmptyTable == [c \in {} |-> 0]

(* Mutant of CooldownElapsed: one cooldown for all classes, counted from the *)
(* last notification of any class.                                           *)
CooldownElapsed_Global(table, c, t) ==
    \A k \in DOMAIN table : t - table[k] > notification_cooldown

(* object_class not in last_notification_time or                             *)
(* current_time - last_notification_time.get(object_class, 0) > cooldown     *)
CooldownElapsed(table, c, t) ==
    \/ c \notin DOMAIN table
    \/ t - table[c] > notification_cooldown

Record(table, c, t) ==
    [k \in DOMAIN table \cup {c} |-> IF k = c THEN t ELSE table[k]]

(* object_class.lower() == 'person' and self.enable_person_detection *)
PersonAlert(c) == c = "person" /\ cfg.enable_person_detection

(* The person branch: self.ntfy_topic and (not in the table or elapsed). *)
PersonNotified(table, c, t) ==
    Truthy(cfg.ntfy_topic) /\ CooldownElapsed(table, c, t)

(* The branch of the other objects: (not in the table or elapsed), then      *)
(* if self.ntfy_topic.                                                        *)
OtherNotified(table, c, t) ==
    CooldownElapsed(table, c, t) /\ Truthy(cfg.ntfy_topic)

(* A detection of class c, looked at with the table `table` at time t, posts *)
(* a notification (and then records t).                                       *)
Notified(table, c, t) ==
    IF PersonAlert(c) THEN PersonNotified(table, c, t) ELSE OtherNotified(table, c, t)

(* Mutant of Priority: a person gets the priority of the other objects. *)
Priority_PersonAsOthers(c, is_priority) ==
    IF is_priority THEN "high" ELSE cfg.ntfy_priority

(* send_notification: the Priority header. *)
Priority(c, is_priority) ==
    IF c = "person" THEN "urgent"
    ELSE IF is_priority THEN "high" ELSE cfg.ntfy_priority

(* What requests.post gives send_notification: a response with status 200,   *)
(* one with another status, or an exception.  send_notification logs the     *)
(* last two and returns as after the first.                                  *)
Responses == {"200", "500", "raised"}
Delivered == {"200"}

(* send_notification: the request posted for class c at time t (the message  *)
(* carries the time), with what requests.post gave.  The person branch calls *)
(* with is_priority=True.                                                    *)
Request(c, t, response) ==
    [class |-> c, priority |-> Priority(c, PersonAlert(c)), time |-> t,
     response |-> response]

(* self.enable_logging and self.supabase_url and self.supabase_key *)
LoggingEnabled ==
    cfg.enable_logging /\ Truthy(cfg.supabase_url) /\ Truthy(cfg.supabase_key)

(* The branch of the other objects with the cooldown elapsed and no topic:   *)
(* nothing is sent and nothing recorded, log_detection is called when        *)
(* logging is enabled.                                                       *)
LoggedOnly(table, c, t) ==
    ~PersonAlert(c) /\ CooldownElapsed(table, c, t) /\ ~Truthy(cfg.ntfy_topic)
        /\ LoggingEnabled

(* log_detection: the row posted to detection_events. *)
LogDetection(c, t) ==
    /\ Len(logged) < MaxLogged
    /\ logged' = Append(logged, [class |-> c, time |-> t])

----------------------------------------------------------------------------
(* Detection-loop threads. *)

(* A loop thread: its position, the locals consecutive_errors and            *)
(* reconnect_attempts of detection_loop, and in process_detections the       *)
(* detections not yet handled and the local current_time.  Two fields record *)
(* the thread's history since its last successful read: read_failures, the   *)
(* reads that failed, and forced_reconnects, the times the read-failure path *)
(* released and reopened the capture.                                        *)
DeadLoop == [pc |-> "dead", consecutive_errors |-> 0, reconnect_attempts |-> 0,
             detections |-> << >>, current_time |-> 0,
             read_failures |-> 0, forced_reconnects |-> 0]
NewLoop == [pc |-> "top", consecutive_errors |-> 0, reconnect_attempts |-> 0,
            detections |-> << >>, current_time |-> 0,
            read_failures |-> 0, forced_reconnects |-> 0]

Alive(l) == loops[l].pc # "dead"
AliveLoops == {l \in LoopIds : Alive(l)}
FreeLoops == LoopIds \ AliveLoops
FreeLoop == CHOOSE l \in FreeLoops : \A k \in FreeLoops : l <= k

TypeOK ==
    /\ detection_active \in BOOLEAN
    /\ monitoring_active \in BOOLEAN
    /\ latest_frame \in {None, Frame}
    /\ is_running \in BOOLEAN
    /\ cap \in {None, "open", "closed"}
    /\ model \in BOOLEAN
    /\ frame_callback \in BOOLEAN
    /\ DOMAIN last_notification_time \subseteq Classes
    /\ \A i \in 1..Len(sent) :
          /\ sent[i].class \in Classes
          /\ sent[i].time \in 0..now
          /\ sent[i].response \in Responses
    /\ Len(logged) <= MaxLogged
    /\ \A i \in 1..Len(logged) : logged[i].class \in Classes /\ logged[i].time \in 0..now
    /\ feed.pc \in {"closed", "check", "lock", "copy", "encode", "failed"}
    /\ feed.frame_to_encode \in {Unbound, Frame}
    /\ feed.copied \in BOOLEAN
    /\ feed.emitted \in {"none", "placeholder", "frame"}
    /\ latest_frame_lock \in {None, "feed"}
    /\ last_heartbeat \in 0..now
    /\ now \in Nat
    /\ mon \in {"off", "poll", "restart", "restart_open", "restart_ok", "restart_fail"}
    /\ \A l \in LoopIds :
          /\ loops[l].pc \in {"dead", "top", "iter", "detect", "caught", "process",
                              "posted", "cleanup"}
          /\ loops[l].detections \in FrameDetections
          /\ loops[l].current_time \in 0..now
          /\ loops[l].read_failures \in 0..MaxReadFailures
          /\ loops[l].forced_reconnects \in 0..MaxReadFailures
          /\ loops[l].consecutive_errors \in 0..(max_consecutive_errors - 1)
          /\ loops[l].reconnect_attempts \in 0..max_reconnect_attempts
    /\ \A r \in ReqIds :
          /\ req[r].pc \in {"idle", "start", "start_open", "start_ok", "stop", "stop_ok"}
          /\ req[r].resp \in {"none", "started", "already_running", "missing_url",
                              "server_error", "model_failed", "open_failed",
                              "stopped", "not_running"}

IdleRequest == [pc |-> "idle", settings |-> NoSettings, resp |-> "none"]

(* A generate_frames generator: its position, the local frame_to_encode      *)
(* (unbound until its first assignment), whether the locked read of the      *)
(* iteration under way copied the slot, and the image it yielded last.       *)
NoFeed == [pc |-> "closed", frame_to_encode |-> Unbound, copied |-> FALSE,
           emitted |-> "none"]

Init ==
    /\ detection_active = FALSE
    /\ monitoring_active = FALSE
    /\ current_settings = NoSettings
    /\ latest_frame = None
    /\ is_running = FALSE
    /\ cap = None
    /\ model \in BOOLEAN          \* app.__main__ preloads the model; load_model can fail
    /\ frame_callback = FALSE
    /\ cfg = InitialConfig
    /\ last_notification_time = EmptyTable
    /\ sent = << >>
    /\ last_heartbeat = 0
    /\ loops = [l \in LoopIds |-> DeadLoop]
    /\ req = [r \in ReqIds |-> IdleRequest]
    /\ mon = "off"
    /\ now = 0
    /\ logged = << >>
    /\ feed = NoFeed
    /\ latest_frame_lock = None

----------------------------------------------------------------------------
(* ObjectDetector.start_detection, stop_detection.  `result` is what the     *)
(* call returns (or that it raised); the caller continues on it.             *)

(* start_detection up to the model load: the is_running check, heartbeat(),  *)
(* the fields taken from the settings, load_model() when no model is loaded. *)
(* settings None (the monitor's call after the settings were cleared) raises *)
(* at settings.get, after heartbeat().                                       *)
DetStartBegin(s, result) ==
    \/ /\ is_running
       /\ result = "already_running"
       /\ UNCHANGED <<last_heartbeat, cfg, model>>
    \/ /\ ~is_running
       /\ s = NoSettings
       /\ result = "raised"
       /\ last_heartbeat' = now
       /\ UNCHANGED <<cfg, model>>
    \/ /\ ~is_running
       /\ s # NoSettings
       /\ last_heartbeat' = now
       /\ cfg' = ConfigOf(s)
       /\ \/ /\ model
             /\ result = "opening"
             /\ UNCHANGED model
          \/ /\ ~model
             /\ result = "opening"
             /\ model' = TRUE
          \/ /\ ~model
             /\ result = "model_failed"
             /\ UNCHANGED model

(* Mutant of DetStartOpen: is_running is set before the capture is looked    *)
(* at, so a failed opening leaves the flag set.                              *)
DetStartOpen_FlagBeforeCheck(result) ==
    \/ /\ FreeLoops # {}
       /\ result = "started"
       /\ cap' = "open"
       /\ is_running' = TRUE
       /\ loops' = [loops EXCEPT ![FreeLoop] = NewLoop]
    \/ /\ result = "open_failed"
       /\ cap' = "closed"
       /\ is_running' = TRUE
       /\ UNCHANGED loops
    \/ /\ result = "open_failed"
       /\ is_running' = TRUE
       /\ UNCHANGED <<cap, loops>>

(* start_detection from the opening of the stream: cv2.VideoCapture gives an *)
(* opened capture, one that is not opened, or raises.  Only an opened one    *)
(* sets is_running and starts a detection_loop thread.                       *)
DetStartOpen(result) ==
    \/ /\ FreeLoops # {}
       /\ result = "started"
       /\ cap' = "open"
       /\ is_running' = TRUE
       /\ loops' = [loops EXCEPT ![FreeLoop] = NewLoop]
    \/ /\ result = "open_failed"
       /\ cap' = "closed"
       /\ UNCHANGED <<is_running, loops>>
    \/ /\ result = "open_failed"
       /\ UNCHANGED <<cap, is_running, loops>>

(* stop_detection: clears the flag and releases the capture; the loop thread *)
(* is not joined.                                                            *)
DetStop(result) ==
    \/ /\ ~is_running
       /\ result = "not_running"
       /\ UNCHANGED <<is_running, cap>>
    \/ /\ is_running
       /\ result = "stopped"
       /\ is_running' = FALSE
       /\ cap' = None

----------------------------------------------------------------------------
(* with latest_frame_lock: latest_frame = value.  The thread waits for the   *)
(* lock at the start of its step; the only thread that holds the lock over   *)
(* more than one step is a generator, between its acquisition and its copy.  *)
WithLock(value) ==
    /\ latest_frame_lock = None
    /\ latest_frame' = value

(* app.clear_latest_frame *)
ClearLatestFrame == WithLock(None)

(* app.start_monitoring: starts the monitor thread unless one is alive. *)
StartMonitoring ==
    IF mon = "off"
    THEN monitoring_active' = TRUE /\ mon' = "poll"
    ELSE UNCHANGED <<monitoring_active, mon>>

Respond(r, resp) ==
    req' = [req EXCEPT ![r] = [pc |-> "idle", settings |-> NoSettings, resp |-> resp]]

(* A POST /start with the JSON body `body`, or a POST /stop, reaches its     *)
(* handler in a free request thread.                                         *)
CallStart(r, body) ==
    /\ req[r].pc = "idle"
    /\ req' = [req EXCEPT ![r] = [pc |-> "start", settings |-> body, resp |-> "none"]]
    /\ UNCHANGED <<detection_active, monitoring_active, current_settings, latest_frame,
                   is_running, cap, model, frame_callback, cfg, last_notification_time, sent,
                   last_heartbeat, loops, mon, now, logged, feed, latest_frame_lock>>

CallStop(r) ==
    /\ req[r].pc = "idle"
    /\ req' = [req EXCEPT ![r] = [pc |-> "stop", settings |-> NoSettings, resp |-> "none"]]
    /\ UNCHANGED <<detection_active, monitoring_active, current_settings, latest_frame,
                   is_running, cap, model, frame_callback, cfg, last_notification_time, sent,
                   last_heartbeat, loops, mon, now, logged, feed, latest_frame_lock>>

(* Mutant of StartRejected: the handler does not look at the session flag. *)
StartRejected_Never == FALSE

(* app.start_detection: if detection_active *)
StartRejected == detection_active

(* Mutant of MissingLocator: only the presence of the key is checked. *)
MissingLocator_KeyOnly(body) == "ipCameraUrl" \notin DOMAIN body

(* app.start_detection: if not settings.get('ipCameraUrl') *)
MissingLocator(body) == ~Truthy(Get(body, "ipCameraUrl", None))

(* Mutant of StopRejected: the detector's flag is checked, not the session's. *)
StopRejected_DetectorFlag == ~is_running

(* app.stop_detection: if not detection_active *)
StopRejected == ~detection_active

(* POST /start, up to the call of detector.start_detection and in it up to   *)
(* the opening of the stream.  A request without a JSON body raises at       *)
(* settings.get; the except branch sets detection_active False.              *)
StartRequest(r) ==
    /\ req[r].pc = "start"
    /\ \/ /\ StartRejected
          /\ Respond(r, "already_running")
          /\ UNCHANGED <<detection_active, last_heartbeat, cfg, model>>
       \/ /\ ~StartRejected
          /\ req[r].settings = NoBody
          /\ detection_active' = FALSE
          /\ Respond(r, "server_error")
          /\ UNCHANGED <<last_heartbeat, cfg, model>>
       \/ /\ ~StartRejected
          /\ req[r].settings # NoBody
          /\ MissingLocator(req[r].settings)
          /\ Respond(r, "missing_url")
          /\ UNCHANGED <<detection_active, last_heartbeat, cfg, model>>
       \/ /\ ~StartRejected
          /\ req[r].settings # NoBody
          /\ ~MissingLocator(req[r].settings)
          /\ UNCHANGED detection_active
          /\ \E result \in {"already_running", "model_failed", "opening"} :
                /\ DetStartBegin(WithPersonDefault(req[r].settings), result)
                /\ IF result = "opening"
                   THEN req' = [req EXCEPT ![r] =
                           [pc |-> "start_open",
                            settings |-> WithPersonDefault(req[r].settings),
                            resp |-> "none"]]
                   ELSE Respond(r, result)
    /\ UNCHANGED <<monitoring_active, current_settings, latest_frame, is_running, cap,
                   frame_callback, last_notification_time, sent, loops, mon, now,
                   logged, feed, latest_frame_lock>>

(* POST /start: the rest of detector.start_detection. *)
StartOpen(r) ==
    /\ req[r].pc = "start_open"
    /\ \E result \in {"started", "open_failed"} :
          /\ DetStartOpen(result)
          /\ IF result = "started"
             THEN req' = [req EXCEPT ![r].pc = "start_ok"]
             ELSE Respond(r, "open_failed")
    /\ UNCHANGED <<detection_active, monitoring_active, current_settings, latest_frame,
                   model, frame_callback, cfg, last_notification_time, sent, last_heartbeat,
                   mon, now, logged, feed, latest_frame_lock>>

(* POST /start after detector.start_detection returned success. *)
StartFinish(r) ==
    /\ req[r].pc = "start_ok"
    /\ detection_active' = TRUE
    /\ current_settings' = req[r].settings
    /\ StartMonitoring
    /\ frame_callback' = TRUE
    /\ Respond(r, "started")
    /\ UNCHANGED <<latest_frame, is_running, cap, model, cfg, last_notification_time, sent,
                   last_heartbeat, loops, now, logged, feed, latest_frame_lock>>

(* POST /stop, up to the return of detector.stop_detection (which is taken   *)
(* not to raise: cap.release() of an existing capture returns).              *)
StopRequest(r) ==
    /\ req[r].pc = "stop"
    /\ \/ /\ StopRejected
          /\ Respond(r, "not_running")
          /\ UNCHANGED <<is_running, cap>>
       \/ /\ ~StopRejected
          /\ \E result \in {"not_running", "stopped"} :
                /\ DetStop(result)
                /\ IF result = "stopped"
                   THEN req' = [req EXCEPT ![r].pc = "stop_ok"]
                   ELSE Respond(r, "not_running")
    /\ UNCHANGED <<detection_active, monitoring_active, current_settings, latest_frame,
                   model, frame_callback, cfg, last_notification_time, sent, last_heartbeat,
                   loops, mon, now, logged, feed, latest_frame_lock>>

(* POST /stop after detector.stop_detection returned success. *)
StopFinish(r) ==
    /\ req[r].pc = "stop_ok"
    /\ detection_active' = FALSE
    /\ WithLock(None)
    /\ current_settings' = NoSettings
    /\ Respond(r, "stopped")
    /\ UNCHANGED <<monitoring_active, is_running, cap, model, frame_callback, cfg,
                   last_notification_time, sent, last_heartbeat, loops, mon, now,
                   logged, feed, latest_frame_lock>>

----------------------------------------------------------------------------
(* app.monitor_detector: one pass of the while loop.  With the session      *)
(* active it stamps the heartbeat; if the detector is not running and        *)
(* settings are stored it calls detector.stop_detection() and sleeps 2 s     *)
(* before the restart.                                                       *)
MonitorPoll ==
    /\ mon = "poll"
    /\ \/ /\ detection_active
          /\ last_heartbeat' = now
          /\ IF ~is_running /\ current_settings # NoSettings
             THEN /\ DetStop("not_running")
                  /\ mon' = "restart"
             ELSE UNCHANGED <<is_running, cap, mon>>
       \/ /\ ~detection_active
          /\ UNCHANGED <<last_heartbeat, is_running, cap, mon>>
    /\ UNCHANGED <<detection_active, monitoring_active, current_settings, latest_frame,
                   model, frame_callback, cfg, last_notification_time, sent, loops, req, now,
                   logged, feed, latest_frame_lock>>

(* The monitor's call detector.start_detection(current_settings), up to the  *)
(* opening of the stream.  A failure result or an exception marks the        *)
(* session inactive and clears the frame.                                    *)
MonitorRestartBegin ==
    /\ mon = "restart"
    /\ \E result \in {"already_running", "raised", "model_failed", "opening"} :
          /\ DetStartBegin(current_settings, result)
          /\ IF result = "opening"
             THEN /\ mon' = "restart_open"
                  /\ UNCHANGED <<detection_active, latest_frame>>
             ELSE /\ mon' = "poll"
                  /\ detection_active' = FALSE
                  /\ ClearLatestFrame
    /\ UNCHANGED <<monitoring_active, current_settings, is_running, cap, frame_callback,
                   last_notification_time, sent, loops, req, now,
                   logged, feed, latest_frame_lock>>

(* The monitor's call, the rest of detector.start_detection. *)
MonitorRestartOpen ==
    /\ mon = "restart_open"
    /\ \E result \in {"started", "open_failed"} :
          /\ DetStartOpen(result)
          /\ mon' = IF result = "started" THEN "restart_ok" ELSE "restart_fail"
    /\ UNCHANGED <<detection_active, monitoring_active, current_settings, latest_frame,
                   model, frame_callback, cfg, last_notification_time, sent, last_heartbeat,
                   req, now, logged, feed, latest_frame_lock>>

(* Mutant of MonitorRestartFinish: after a failed restart only the frame is *)
(* cleared.                                                                  *)
MonitorRestartFinish_KeepsActive ==
    /\ \/ /\ mon = "restart_ok"
          /\ frame_callback' = TRUE
          /\ UNCHANGED <<detection_active, latest_frame>>
       \/ /\ mon = "restart_fail"
          /\ ClearLatestFrame
          /\ UNCHANGED <<detection_active, frame_callback>>
    /\ mon' = "poll"
    /\ UNCHANGED <<monitoring_active, current_settings, is_running, cap, model, cfg,
                   last_notification_time, sent, last_heartbeat, loops, req, now,
                   logged, feed, latest_frame_lock>>

(* The monitor after detector.start_detection returned. *)
MonitorRestartFinish ==
    /\ \/ /\ mon = "restart_ok"
          /\ frame_callback' = TRUE
          /\ UNCHANGED <<detection_active, latest_frame>>
       \/ /\ mon = "restart_fail"
          /\ detection_active' = FALSE
          /\ ClearLatestFrame
          /\ UNCHANGED frame_callback
    /\ mon' = "poll"
    /\ UNCHANGED <<monitoring_active, current_settings, is_running, cap, model, cfg,
                   last_notification_time, sent, last_heartbeat, loops, req, now,
                   logged, feed, latest_frame_lock>>

----------------------------------------------------------------------------
(* ObjectDetector.detection_loop, thread l. *)

(* while self.is_running *)
LoopCheck(l) ==
    /\ loops[l].pc = "top"
    /\ loops' = [loops EXCEPT ![l].pc = IF is_running THEN "iter" ELSE "cleanup"]
    /\ UNCHANGED <<detection_active, monitoring_active, current_settings, latest_frame,
                   is_running, cap, model, frame_callback, cfg, last_notification_time, sent,
                   last_heartbeat, req, mon, now, logged, feed, latest_frame_lock>>

(* Mutant of LoopReconnect: the thread that gives up clears the running flag *)
(* itself.                                                                   *)
LoopReconnect_ClearsFlag(l) ==
    /\ loops[l].pc = "iter"
    /\ cap # "open"
    /\ \/ /\ cap' = "open"
          /\ loops' = [loops EXCEPT ![l].pc = "top", ![l].reconnect_attempts = 0]
          /\ UNCHANGED is_running
       \/ /\ cap' = "closed"
          /\ loops' = [loops EXCEPT
                ![l].reconnect_attempts = @ + 1,
                ![l].pc = IF loops[l].reconnect_attempts + 1 >= max_reconnect_attempts
                          THEN "cleanup" ELSE "top"]
          /\ is_running' = IF loops[l].reconnect_attempts + 1 >= max_reconnect_attempts
                           THEN FALSE ELSE is_running
       \/ /\ UNCHANGED <<cap, is_running>>
          /\ loops' = [loops EXCEPT ![l].pc = "top"]
    /\ UNCHANGED <<detection_active, monitoring_active, current_settings, latest_frame,
                   model, frame_callback, cfg, last_notification_time, sent,
                   last_heartbeat, req, mon, now, logged, feed, latest_frame_lock>>

(* Camera not open: release, reopen, count the failed attempt, break when    *)
(* the attempts are used up.  An exception of the reopening is caught and    *)
(* the loop continues.                                                       *)
LoopReconnect(l) ==
    /\ loops[l].pc = "iter"
    /\ cap # "open"
    /\ \/ /\ cap' = "open"
          /\ loops' = [loops EXCEPT ![l].pc = "top", ![l].reconnect_attempts = 0]
       \/ /\ cap' = "closed"
          /\ loops' = [loops EXCEPT
                ![l].reconnect_attempts = @ + 1,
                ![l].pc = IF loops[l].reconnect_attempts + 1 >= max_reconnect_attempts
                          THEN "cleanup" ELSE "top"]
       \/ /\ UNCHANGED cap
          /\ loops' = [loops EXCEPT ![l].pc = "top"]
    /\ UNCHANGED <<detection_active, monitoring_active, current_settings, latest_frame,
                   is_running, model, frame_callback, cfg, last_notification_time, sent,
                   last_heartbeat, req, mon, now, logged, feed, latest_frame_lock>>

(* self.cap.read() gives a frame, or takes more than 10 s: the capture is   *)
(* then released and dropped.                                                *)
LoopRead(l) ==
    /\ loops[l].pc = "iter"
    /\ cap = "open"
    /\ \/ /\ loops' = [loops EXCEPT ![l].pc = "detect", ![l].consecutive_errors = 0,
                                    ![l].read_failures = 0, ![l].forced_reconnects = 0]
          /\ UNCHANGED cap
       \/ /\ cap' = None
          /\ loops' = [loops EXCEPT ![l].pc = "top"]
    /\ UNCHANGED <<detection_active, monitoring_active, current_settings, latest_frame,
                   is_running, model, frame_callback, cfg, last_notification_time, sent,
                   last_heartbeat, req, mon, now, logged, feed, latest_frame_lock>>

(* Mutant of LoopReadFailed: the threshold is taken one failure late. *)
LoopReadFailed_OffByOne(l) ==
    /\ loops[l].pc = "iter"
    /\ cap = "open"
    /\ loops[l].read_failures < MaxReadFailures
    /\ \/ /\ loops[l].consecutive_errors + 1 <= max_consecutive_errors
          /\ loops' = [loops EXCEPT ![l].pc = "top", ![l].consecutive_errors = @ + 1,
                                    ![l].read_failures = @ + 1]
          /\ UNCHANGED cap
       \/ /\ loops[l].consecutive_errors + 1 > max_consecutive_errors
          /\ loops' = [loops EXCEPT ![l].pc = "top", ![l].consecutive_errors = 0,
                                    ![l].read_failures = @ + 1,
                                    ![l].forced_reconnects = @ + 1]
          /\ cap' \in {"open", "closed"}
    /\ UNCHANGED <<detection_active, monitoring_active, current_settings, latest_frame,
                   is_running, model, frame_callback, cfg, last_notification_time, sent,
                   last_heartbeat, req, mon, now, logged, feed, latest_frame_lock>>

(* self.cap.read() fails (ret false, no frame, or an exception): the failure *)
(* is counted; at max_consecutive_errors the counter is reset and the        *)
(* capture is released and reopened, without a look at the result.           *)
LoopReadFailed(l) ==
    /\ loops[l].pc = "iter"
    /\ cap = "open"
    /\ loops[l].read_failures < MaxReadFailures
    /\ \/ /\ loops[l].consecutive_errors + 1 < max_consecutive_errors
          /\ loops' = [loops EXCEPT ![l].pc = "top", ![l].consecutive_errors = @ + 1,
                                    ![l].read_failures = @ + 1]
          /\ UNCHANGED cap
       \/ /\ loops[l].consecutive_errors + 1 >= max_consecutive_errors
          /\ loops' = [loops EXCEPT ![l].pc = "top", ![l].consecutive_errors = 0,
                                    ![l].read_failures = @ + 1,
                                    ![l].forced_reconnects = @ + 1]
          /\ cap' \in {"open", "closed"}
    /\ UNCHANGED <<detection_active, monitoring_active, current_settings, latest_frame,
                   is_running, model, frame_callback, cfg, last_notification_time, sent,
                   last_heartbeat, req, mon, now, logged, feed, latest_frame_lock>>

(* Mutant of UpdateLatestFrame: the slot is written without the lock. *)
UpdateLatestFrame_Unlocked(frame) == latest_frame' = frame

(* app.update_latest_frame *)
UpdateLatestFrame(frame) == WithLock(frame)

(* Inference on the frame read and the frame callback (at most one call per *)
(* 33 ms: callback_due; an exception of the resizing is caught and leaves    *)
(* the slot as a skipped call does); with detections, process_detections is  *)
(* entered and takes the time.                                               *)
LoopDetect(l, detections, callback_due) ==
    /\ loops[l].pc = "detect"
    /\ IF frame_callback /\ callback_due
       THEN UpdateLatestFrame(Frame)
       ELSE UNCHANGED latest_frame
    /\ loops' = [loops EXCEPT
          ![l].pc = IF detections = << >> THEN "top" ELSE "process",
          ![l].detections = detections,
          ![l].current_time = now]
    /\ UNCHANGED <<detection_active, monitoring_active, current_settings, is_running,
                   cap, model, frame_callback, cfg, last_notification_time, sent,
                   last_heartbeat, req, mon, now, logged, feed, latest_frame_lock>>

(* Mutant of LoopDetectRaised: the exception is not caught and ends the      *)
(* thread's loop.                                                            *)
LoopDetectRaised_Propagates(l) ==
    /\ loops[l].pc = "detect"
    /\ loops' = [loops EXCEPT ![l].pc = "cleanup"]
    /\ UNCHANGED <<detection_active, monitoring_active, current_settings, latest_frame,
                   is_running, cap, model, frame_callback, cfg, last_notification_time,
                   sent, last_heartbeat, req, mon, now, logged, feed, latest_frame_lock>>

(* The inference or the drawing of the boxes raises: the exception is caught *)
(* by the handler of the detection block, which logs it and sleeps 0.5 s.    *)
LoopDetectRaised(l) ==
    /\ loops[l].pc = "detect"
    /\ loops' = [loops EXCEPT ![l].pc = "caught"]
    /\ UNCHANGED <<detection_active, monitoring_active, current_settings, latest_frame,
                   is_running, cap, model, frame_callback, cfg, last_notification_time,
                   sent, last_heartbeat, req, mon, now, logged, feed, latest_frame_lock>>

(* After the sleep of the handler the iteration is over. *)
LoopCaught(l) ==
    /\ loops[l].pc = "caught"
    /\ loops' = [loops EXCEPT ![l].pc = "top"]
    /\ UNCHANGED <<detection_active, monitoring_active, current_settings, latest_frame,
                   is_running, cap, model, frame_callback, cfg, last_notification_time,
                   sent, last_heartbeat, req, mon, now, logged, feed, latest_frame_lock>>

(* The loop thread goes on to the next detection, or leaves                  *)
(* process_detections after the last one.                                    *)
NextDetection(l) ==
    loops' = [loops EXCEPT
        ![l].detections = Tail(@),
        ![l].pc = IF Tail(loops[l].detections) = << >> THEN "top" ELSE "process"]

(* process_detections, one detection: the check of the cooldown table and,   *)
(* when it passes, the call of send_notification, which posts the request    *)
(* and gets `response`.  Without a topic a detection of the other objects    *)
(* whose cooldown has elapsed is logged at once.                             *)
LoopProcess(l, response) ==
    /\ loops[l].pc = "process"
    /\ LET c == Head(loops[l].detections)
           t == loops[l].current_time
       IN  IF Notified(last_notification_time, c, t)
           THEN /\ sent' = Append(sent, Request(c, t, response))
                /\ loops' = [loops EXCEPT ![l].pc = "posted"]
                /\ UNCHANGED logged
           ELSE /\ NextDetection(l)
                /\ UNCHANGED sent
                /\ IF LoggedOnly(last_notification_time, c, t)
                   THEN LogDetection(c, t)
                   ELSE UNCHANGED logged
    /\ UNCHANGED <<detection_active, monitoring_active, current_settings, latest_frame,
                   is_running, cap, model, frame_callback, cfg, last_notification_time,
                   last_heartbeat, req, mon, now, feed, latest_frame_lock>>

(* process_detections after send_notification has returned, whatever         *)
(* requests.post gave:                                                       *)
(* self.last_notification_time[object_class] = current_time                  *)
(* and the call of log_detection when logging is enabled.                    *)
LoopRecord(l) ==
    /\ loops[l].pc = "posted"
    /\ last_notification_time' =
          Record(last_notification_time, Head(loops[l].detections), loops[l].current_time)
    /\ NextDetection(l)
    /\ IF LoggingEnabled
       THEN LogDetection(Head(loops[l].detections), loops[l].current_time)
       ELSE UNCHANGED logged
    /\ UNCHANGED <<detection_active, monitoring_active, current_settings, latest_frame,
                   is_running, cap, model, frame_callback, cfg, sent, last_heartbeat,
                   req, mon, now, feed, latest_frame_lock>>

(* After the loop: release the capture. *)
LoopCleanup(l) ==
    /\ loops[l].pc = "cleanup"
    /\ cap' = None
    /\ loops' = [loops EXCEPT ![l] = DeadLoop]
    /\ UNCHANGED <<detection_active, monitoring_active, current_settings, latest_frame,
                   is_running, model, frame_callback, cfg, last_notification_time, sent,
                   last_heartbeat, req, mon, now, logged, feed, latest_frame_lock>>

----------------------------------------------------------------------------
(* app.generate_frames, the generator behind a GET /video_feed response.     *)

(* GET /video_feed: a client connects (again, after a stream that failed)    *)
(* and the response starts a new generator.                                  *)
VideoFeed ==
    /\ feed.pc \in {"closed", "failed"}
    /\ feed' = [NoFeed EXCEPT !.pc = "check"]
    /\ UNCHANGED <<detection_active, monitoring_active, current_settings, latest_frame,
                   is_running, cap, model, frame_callback, cfg, last_notification_time,
                   sent, last_heartbeat, loops, req, mon, now, logged, latest_frame_lock>>

(* One pass of the while loop, once the frame interval has elapsed: with the *)
(* session not active or the slot empty (read without the lock) the blank    *)
(* frame is encoded and yielded; otherwise the generator goes for the lock.  *)
FeedCheck ==
    /\ feed.pc = "check"
    /\ feed' = IF ~detection_active \/ latest_frame = None
               THEN [feed EXCEPT !.emitted = "placeholder"]
               ELSE [feed EXCEPT !.pc = "lock"]
    /\ UNCHANGED <<detection_active, monitoring_active, current_settings, latest_frame,
                   is_running, cap, model, frame_callback, cfg, last_notification_time,
                   sent, last_heartbeat, loops, req, mon, now, logged, latest_frame_lock>>

(* with latest_frame_lock: the lock is acquired. *)
FeedLock ==
    /\ feed.pc = "lock"
    /\ latest_frame_lock = None
    /\ latest_frame_lock' = "feed"
    /\ feed' = [feed EXCEPT !.pc = "copy"]
    /\ UNCHANGED <<detection_active, monitoring_active, current_settings, latest_frame,
                   is_running, cap, model, frame_callback, cfg, last_notification_time,
                   sent, last_heartbeat, loops, req, mon, now, logged>>

(* Under the lock: if latest_frame is not None it is copied into             *)
(* frame_to_encode, otherwise frame_to_encode is left as it is; the lock is  *)
(* released.                                                                 *)
FeedCopy ==
    /\ feed.pc = "copy"
    /\ feed' = IF latest_frame # None
               THEN [feed EXCEPT !.pc = "encode", !.frame_to_encode = latest_frame,
                                 !.copied = TRUE]
               ELSE [feed EXCEPT !.pc = "encode", !.copied = FALSE]
    /\ latest_frame_lock' = None
    /\ UNCHANGED <<detection_active, monitoring_active, current_settings, latest_frame,
                   is_running, cap, model, frame_callback, cfg, last_notification_time,
                   sent, last_heartbeat, loops, req, mon, now, logged>>

(* if frame_to_encode is not None: encode it and yield it.  The name is      *)
(* unbound when no pass has copied a frame yet: the test raises              *)
(* UnboundLocalError, which ends the generator and the response.             *)
FeedEncode ==
    /\ feed.pc = "encode"
    /\ feed' = IF feed.frame_to_encode = Unbound
               THEN [feed EXCEPT !.pc = "failed", !.copied = FALSE]
               ELSE [feed EXCEPT !.pc = "check", !.emitted = "frame", !.copied = FALSE]
    /\ UNCHANGED <<detection_active, monitoring_active, current_settings, latest_frame,
                   is_running, cap, model, frame_callback, cfg, last_notification_time,
                   sent, last_heartbeat, loops, req, mon, now, logged, latest_frame_lock>>

FeedStep == VideoFeed \/ FeedCheck \/ FeedLock \/ FeedCopy \/ FeedEncode

----------------------------------------------------------------------------
(* The supervisor: the request threads, the monitor and the detection-loop  *)
(* threads, with a camera whose reads give a frame or hang, within one       *)
(* reading of the clock (now does not change).  The counting of failed reads *)
(* (LoopReadFailed), an inference that raises, posts that fail and the       *)
(* streaming generator are steps of the specifications further down, not of  *)
(* this one.                                                                 *)
LoopStep == \E l \in LoopIds :
    \/ LoopCheck(l)
    \/ LoopReconnect(l)
    \/ LoopRead(l)
    \/ \E detections \in SupervisorDetections, callback_due \in BOOLEAN :
          LoopDetect(l, detections, callback_due)
    \/ \E response \in Delivered : LoopProcess(l, response)
    \/ LoopRecord(l)
    \/ LoopCleanup(l)

MonitorStep ==
    MonitorPoll \/ MonitorRestartBegin \/ MonitorRestartOpen \/ MonitorRestartFinish

RequestStep == \E r \in ReqIds :
    \/ \E body \in RequestBodies : CallStart(r, body)
    \/ CallStop(r)
    \/ StartRequest(r)
    \/ StartOpen(r)
    \/ StartFinish(r)
    \/ StopRequest(r)
    \/ StopFinish(r)

Next == RequestStep \/ MonitorStep \/ LoopStep

Spec == Init /\ [][Next]_vars

(* The steps of a request handler once its request has arrived. *)
HandlerStep == \E r \in ReqIds :
    StartRequest(r) \/ StartOpen(r) \/ StartFinish(r) \/ StopRequest(r) \/ StopFinish(r)

(* The monitor thread, the loop threads and the handlers of the requests     *)
(* that have arrived are scheduled as long as they have a step to take;      *)
(* requests arrive or not.                                                   *)
FairSpec == Spec /\ WF_vars(MonitorStep) /\ WF_vars(LoopStep) /\ WF_vars(HandlerStep)

----------------------------------------------------------------------------
(* The notification throttler: one detection loop of a running session, the  *)
(* clock, and frames with the detections of FrameDetections.                 *)

(* Settings of a session, by the fields the throttler reads. *)
AlertSettings ==
    {[ipCameraUrl |-> "webcam://0", ntfyTopic |-> topic, ntfyPriority |-> priority,
      enablePersonDetection |-> person] :
        topic \in {"alerts", ""}, priority \in {"default", "low"}, person \in BOOLEAN}

(* The state a POST /start with settings s leaves on success: the detector   *)
(* runs its first loop thread, the monitor polls.                            *)
RunningSession(s) ==
    /\ detection_active = TRUE
    /\ monitoring_active = TRUE
    /\ current_settings = s
    /\ latest_frame = None
    /\ is_running = TRUE
    /\ cap = "open"
    /\ model = TRUE
    /\ frame_callback = TRUE
    /\ cfg = ConfigOf(s)
    /\ last_notification_time = EmptyTable
    /\ sent = << >>
    /\ last_heartbeat = 0
    /\ loops = [l \in LoopIds |-> IF l = 1 THEN NewLoop ELSE DeadLoop]
    /\ req = [r \in ReqIds |-> [pc |-> "idle", settings |-> NoSettings,
                                resp |-> IF r = 1 THEN "started" ELSE "none"]]
    /\ mon = "poll"
    /\ now = 0
    /\ logged = << >>
    /\ feed = NoFeed
    /\ latest_frame_lock = None

(* time.time() between two calls: the clock advances by d seconds. *)
TickSteps == {5, 60, 61}

Tick(d) ==
    /\ now + d <= MaxTime
    /\ now' = now + d
    /\ UNCHANGED <<detection_active, monitoring_active, current_settings, latest_frame,
                   is_running, cap, model, frame_callback, cfg, last_notification_time,
                   sent, last_heartbeat, loops, req, mon, logged, feed, latest_frame_lock>>

ClockStep == \E d \in TickSteps : Tick(d)

ThrottleLoopStep == \E l \in LoopIds :
    \/ LoopCheck(l)
    \/ LoopReconnect(l)
    \/ LoopRead(l)
    \/ \E detections \in FrameDetections, callback_due \in BOOLEAN :
          LoopDetect(l, detections, callback_due)
    \/ \E response \in Delivered : LoopProcess(l, response)
    \/ LoopRecord(l)
    \/ LoopCleanup(l)

ThrottleInit == \E s \in AlertSettings : RunningSession(s)

ThrottleNext == ClockStep \/ ThrottleLoopStep

ThrottleSpec == ThrottleInit /\ [][ThrottleNext]_vars

----------------------------------------------------------------------------
(* The capture watchdog: one detection loop of a running session with a      *)
(* camera whose reads give a frame, fail or hang and whose reopening gives   *)
(* an opened capture, an unopened one, or raises.                            *)
WatchdogLoopStep == \E l \in LoopIds :
    \/ LoopCheck(l)
    \/ LoopReconnect(l)
    \/ LoopRead(l)
    \/ LoopReadFailed(l)
    \/ \E detections \in OtherDetections, callback_due \in BOOLEAN :
          LoopDetect(l, detections, callback_due)
    \/ \E response \in Delivered : LoopProcess(l, response)
    \/ LoopRecord(l)
    \/ LoopCleanup(l)

WatchdogInit == RunningSession(WithPersonDefault(SettingsA))

WatchdogNext == WatchdogLoopStep

WatchdogSpec == WatchdogInit /\ [][WatchdogNext]_vars

----------------------------------------------------------------------------
(* Stops and starts of a running session: the request threads and the loop   *)
(* threads, from the state a POST /start with SettingsA leaves, with frames  *)
(* that show a car or nothing, within one reading of the clock.  The monitor *)
(* sleeps.                                                                   *)
RestartLoopThread(l) ==
    \/ LoopCheck(l)
    \/ LoopReconnect(l)
    \/ LoopRead(l)
    \/ \E detections \in OtherDetections, callback_due \in BOOLEAN :
          LoopDetect(l, detections, callback_due)
    \/ \E response \in Delivered : LoopProcess(l, response)
    \/ LoopRecord(l)
    \/ LoopCleanup(l)

RestartLoopStep == \E l \in LoopIds : RestartLoopThread(l)

RestartInit == RunningSession(WithPersonDefault(SettingsA))

RestartNext == RequestStep \/ RestartLoopStep

RestartSpec == RestartInit /\ [][RestartNext]_vars

(* Every loop thread is scheduled as long as it is alive, and so are the     *)
(* handlers of the requests that have arrived.                               *)
RestartFairSpec ==
    /\ RestartSpec
    /\ WF_vars(HandlerStep)
    /\ \A l \in LoopIds : WF_vars(RestartLoopThread(l))

----------------------------------------------------------------------------
(* Faults in the iterations of one detection loop of a running session with  *)
(* logging: reads that fail, an inference that raises, notifications that    *)
(* are refused or raise, and a POST /stop.                                   *)
SettingsLogging ==
    [ipCameraUrl |-> "webcam://0", ntfyTopic |-> "alerts", ntfyPriority |-> "default",
     enablePersonDetection |-> TRUE, enableLogging |-> TRUE,
     supabaseUrl |-> "https://db", supabaseKey |-> "key"]

FaultLoopStep == \E l \in LoopIds :
    \/ LoopCheck(l)
    \/ LoopReconnect(l)
    \/ LoopRead(l)
    \/ LoopReadFailed(l)
    \/ \E detections \in OtherDetections, callback_due \in BOOLEAN :
          LoopDetect(l, detections, callback_due)
    \/ LoopDetectRaised(l)
    \/ LoopCaught(l)
    \/ \E response \in Responses : LoopProcess(l, response)
    \/ LoopRecord(l)
    \/ LoopCleanup(l)

StopStep == \E r \in ReqIds : CallStop(r) \/ StopRequest(r) \/ StopFinish(r)

FaultInit == RunningSession(SettingsLogging)

FaultNext == FaultLoopStep \/ StopStep

FaultSpec == FaultInit /\ [][FaultNext]_vars

----------------------------------------------------------------------------
(* The frame slot: a generator reading it, the loop threads publishing into  *)
(* it, the /stop handler and the monitor clearing it, from the state a POST  *)
(* /start with SettingsA leaves; the detector is started again by the        *)
(* monitor only.  The frames show nothing.                                   *)
StreamLoopStep == \E l \in LoopIds :
    \/ LoopCheck(l)
    \/ LoopReconnect(l)
    \/ LoopRead(l)
    \/ \E callback_due \in BOOLEAN : LoopDetect(l, << >>, callback_due)
    \/ LoopCleanup(l)

StreamInit == RunningSession(WithPersonDefault(SettingsA))

StreamNext == FeedStep \/ StreamLoopStep \/ StopStep \/ MonitorStep

StreamSpec == StreamInit /\ [][StreamNext]_vars

----------------------------------------------------------------------------
(* The throttler of a session that logs its detections, with and without a   *)
(* notification topic: one detection loop and the clock.                     *)
LoggingSettings ==
    {[SettingsLogging EXCEPT !.ntfyTopic = topic] : topic \in {"alerts", ""}}

LoggingInit == \E s \in LoggingSettings : RunningSession(s)

LoggingNext == ClockStep \/ ThrottleLoopStep

LoggingSpec == LoggingInit /\ [][LoggingNext]_vars

----------------------------------------------------------------------------
(* Notifications that fail: the request threads (a POST /start has the body  *)
(* SettingsA) and the loop threads of a running session, with posts that are *)
(* answered 200, answered with another status or raise, and frames that show *)
(* a car or nothing, within one reading of the clock.                        *)
DeliveryLoopStep == \E l \in LoopIds :
    \/ LoopCheck(l)
    \/ LoopReconnect(l)
    \/ LoopRead(l)
    \/ \E detections \in OtherDetections, callback_due \in BOOLEAN :
          LoopDetect(l, detections, callback_due)
    \/ \E response \in Responses : LoopProcess(l, response)
    \/ LoopRecord(l)
    \/ LoopCleanup(l)

DeliveryRequestStep == \E r \in ReqIds :
    \/ CallStart(r, SettingsA)
    \/ CallStop(r)
    \/ StartRequest(r)
    \/ StartOpen(r)
    \/ StartFinish(r)
    \/ StopRequest(r)
    \/ StopFinish(r)

DeliveryInit == RunningSession(WithPersonDefault(SettingsA))

DeliveryNext == DeliveryRequestStep \/ DeliveryLoopStep

DeliverySpec == DeliveryInit /\ [][DeliveryNext]_vars

----------------------------------------------------------------------------
(* The heartbeat: the monitor, the loop threads and a POST /stop of a        *)
(* running session, with a clock that advances by more than three times the *)
(* heartbeat interval between two steps.                                     *)
HeartbeatTicks == {3 * heartbeat_interval + 1}

HeartbeatClockStep == \E d \in HeartbeatTicks : Tick(d)

HeartbeatInit == RunningSession(WithPersonDefault(SettingsA))

HeartbeatNext == HeartbeatClockStep \/ MonitorStep \/ StreamLoopStep \/ StopStep

HeartbeatSpec == HeartbeatInit /\ [][HeartbeatNext]_vars

----------------------------------------------------------------------------
(* Properties. *)

(* Everything but the request threads. *)
session == <<detection_active, monitoring_active, current_settings, latest_frame,
             is_running, cap, model, frame_callback, cfg, last_notification_time, sent,
             last_heartbeat, loops, mon, now, logged, feed, latest_frame_lock>>

(* Thread l is inside the while loop of detection_loop. *)
InLoop(l) == loops[l].pc \in {"top", "iter", "detect", "caught", "process", "posted"}

(* No /start or /stop handler and no restart of the monitor is under way. *)
Quiescent ==
    /\ \A r \in ReqIds : req[r].pc = "idle"
    /\ mon \in {"off", "poll"}

(* A loop thread has left the while loop by the break of the exhausted       *)
(* reconnect attempts.                                                       *)
TerminalFailure ==
    \E l \in LoopIds :
        /\ loops[l].pc = "cleanup"
        /\ loops[l].reconnect_attempts >= max_reconnect_attempts

MonitorRestarting == mon \in {"restart", "restart_open", "restart_ok", "restart_fail"}

(* C1: whenever a detection loop has ended by the exhaustion of its          *)
(* reconnect attempts while the session is marked active and settings are    *)
(* stored, the monitor eventually runs its stop-then-start cycle (or the     *)
(* session has been marked inactive in the meantime).                        *)
C1_TerminalFailureRecovered ==
    (TerminalFailure /\ detection_active /\ current_settings # NoSettings)
        ~> (MonitorRestarting \/ ~detection_active)

(* C2: at most one detection-loop thread is in its loop at any time. *)
C2_AtMostOneLoop == Cardinality({l \in LoopIds : InLoop(l)}) <= 1

(* C3: whenever no handler and no restart is under way, a capture handle     *)
(* exists exactly if the session is marked active.                           *)
C3_HandleIffRunning == Quiescent => ((cap # None) <=> detection_active)

(* C4: when a /start starts the detector (opens the capture and starts the   *)
(* loop thread of the new session), the cooldown table is empty.             *)
C4_StartHasEmptyCooldownTable ==
    [][\A r \in ReqIds :
          (req[r].pc = "start_open" /\ req'[r].pc = "start_ok") =>
              last_notification_time' = EmptyTable]_vars

(* C5: while the session is not marked active the latest-frame slot is       *)
(* empty.                                                                    *)
C5_SlotEmptyWhenNotActive == ~detection_active => latest_frame = None

(* C6: a /start handled while the session is marked active answers "already  *)
(* running" and changes nothing of the session or the detector.              *)
C6_StartWhileRunningRejected ==
    [][\A r \in ReqIds :
          (req[r].pc = "start" /\ detection_active /\ req'[r] # req[r]) =>
              /\ req'[r].pc = "idle"
              /\ req'[r].resp = "already_running"
              /\ UNCHANGED session]_vars

C6_Witness ==
    \E r \in ReqIds :
        /\ req[r].pc = "idle"
        /\ req[r].resp = "already_running"
        /\ detection_active
        /\ is_running
        /\ current_settings = WithPersonDefault(SettingsB)

(* The locator of a settings record is empty or absent. *)
EmptyLocator(s) == "ipCameraUrl" \notin DOMAIN s \/ s["ipCameraUrl"] = ""

(* C7: a /start with an empty or absent ipCameraUrl, handled while the       *)
(* session is Stopped, answers "Camera URL is required" and changes nothing: *)
(* no capture, no loop thread, the session stays not active.                 *)
C7_MissingLocatorRejected ==
    [][\A r \in ReqIds :
          (/\ req[r].pc = "start"
           /\ ~detection_active
           /\ req[r].settings # NoBody
           /\ EmptyLocator(req[r].settings)
           /\ req'[r] # req[r]) =>
              /\ req'[r].pc = "idle"
              /\ req'[r].resp = "missing_url"
              /\ ~detection_active'
              /\ UNCHANGED session]_vars

C7_Witness ==
    \E r \in ReqIds :
        /\ req[r].pc = "idle"
        /\ req[r].resp = "missing_url"
        /\ ~detection_active
        /\ ~is_running
        /\ cap = None
        /\ \A l \in LoopIds : ~Alive(l)

(* The session was marked inactive by the monitor's failed restart: the      *)
(* settings of the session are still stored.                                 *)
SessionFailed == ~detection_active /\ current_settings # NoSettings

(* C8: a /stop that the detector accepted ends with the running flag false,  *)
(* no capture handle, an empty frame slot, no stored settings and the        *)
(* session not active; and /stop is accepted when the session is Running or  *)
(* Failed.                                                                   *)
C8_StopEndsStopped ==
    [][\A r \in ReqIds :
          /\ (req[r].pc = "stop_ok" /\ req'[r] # req[r]) =>
                /\ req'[r].resp = "stopped"
                /\ ~is_running'
                /\ cap' = None
                /\ latest_frame' = None
                /\ current_settings' = NoSettings
                /\ ~detection_active'
          /\ (/\ req[r].pc = "stop"
              /\ detection_active \/ SessionFailed
              /\ req'[r] # req[r]) => req'[r].pc = "stop_ok"]_vars

(* C9: a /stop handled while the session is not marked active answers "not   *)
(* running" and changes nothing.                                             *)
C9_StopWhenStoppedRejected ==
    [][\A r \in ReqIds :
          (req[r].pc = "stop" /\ ~detection_active /\ req'[r] # req[r]) =>
              /\ req'[r].pc = "idle"
              /\ req'[r].resp = "not_running"
              /\ UNCHANGED session]_vars

C9_Witness ==
    \E r \in ReqIds :
        /\ req[r].pc = "idle"
        /\ req[r].resp = "not_running"
        /\ ~detection_active
        /\ mon = "poll"

(* The step of request thread r ends a /start with the answer that the model *)
(* could not be loaded or the stream could not be opened.                    *)
StartFailed(r) ==
    /\ req[r].pc \in {"start", "start_open"}
    /\ req'[r].pc = "idle"
    /\ req'[r].resp \in {"model_failed", "open_failed"}

(* C10: a /start whose model load or stream opening fails answers with the   *)
(* error and leaves detection_active, is_running, the loop threads, the      *)
(* monitor and the stored settings as they were (after a failed model load   *)
(* both flags are false); a stream that is not opened ends the /start with   *)
(* the error, and the handler goes on to mark the session active only with   *)
(* a loaded model and an opened stream.                                      *)
C10_FailedStartStaysStopped ==
    [][\A r \in ReqIds :
          /\ StartFailed(r) =>
                UNCHANGED <<detection_active, is_running, loops, mon,
                            monitoring_active, current_settings>>
          /\ (req[r].pc = "start" /\ StartFailed(r)) =>
                (~detection_active' /\ ~is_running')
          /\ (req[r].pc = "start_open" /\ req'[r] # req[r] /\ cap' # "open") =>
                StartFailed(r)
          /\ (req[r].pc = "start" /\ req'[r] # req[r] /\ ~model') =>
                req'[r].pc = "idle"
          /\ (req[r].pc = "start_open" /\ req'[r].pc = "start_ok") =>
                (model' /\ cap' = "open" /\ is_running')]_vars

C10_Witness ==
    \E r \in ReqIds :
        /\ req[r].pc = "idle"
        /\ req[r].resp = "open_failed"
        /\ ~detection_active
        /\ ~is_running
        /\ cap = "closed"
        /\ current_settings = NoSettings
        /\ mon = "off"
        /\ \A l \in LoopIds : ~Alive(l)

----------------------------------------------------------------------------
(* Properties of the notification throttler. *)

(* The requests the step posts. *)
NewRequests == SubSeq(sent', Len(sent) + 1, Len(sent'))

(* The requests of a sequence that are for class c. *)
RequestsFor(requests, c) == SelectSeq(requests, LAMBDA q : q.class = c)

(* At time t no request for class c was posted so far, or the last one more  *)
(* than the cooldown ago; a request for c was posted less than the cooldown  *)
(* ago.                                                                      *)
Due(c, t) ==
    \A i \in 1..Len(sent) :
        sent[i].class = c => t - sent[i].time > notification_cooldown

Recent(c, t) ==
    \E i \in 1..Len(sent) :
        sent[i].class = c /\ t - sent[i].time < notification_cooldown

(* Loop thread l handles a detection of class c in this step. *)
Handles(l, c) ==
    /\ loops[l].pc = "process"
    /\ loops'[l] # loops[l]
    /\ Head(loops[l].detections) = c

(* Requests for class c are never less than the cooldown apart (two          *)
(* detections in one frame included); a detection of c gets exactly one      *)
(* request when none was posted within the cooldown, and none when one was   *)
(* posted less than the cooldown ago.                                        *)
Throttled(c) ==
    /\ \A i, j \in 1..Len(sent') :
          (i < j /\ sent'[i].class = c /\ sent'[j].class = c) =>
              sent'[j].time - sent'[i].time > notification_cooldown
    /\ \A l \in LoopIds :
          Handles(l, c) =>
              /\ Due(c, loops[l].current_time) =>
                    (Len(NewRequests) = 1 /\ NewRequests[1].class = c)
              /\ Recent(c, loops[l].current_time) => NewRequests = << >>

(* C11: with a topic configured, detections of a class other than person     *)
(* less than 60 s apart (also two in one frame) get one request, the second  *)
(* one none; a detection more than 60 s after the last request gets one.     *)
C11_OtherClassCooldown ==
    [][\A c \in Classes \ {"person"} :
          cfg.ntfy_topic = "alerts" => Throttled(c)]_vars

(* C12: with person alerting enabled and a topic configured, person          *)
(* detections follow the cooldown: the first gets one request, one 5 s later *)
(* none, one more than 60 s after the last request one more.                 *)
C12_PersonCooldown ==
    [][(cfg.enable_person_detection /\ cfg.ntfy_topic = "alerts") =>
          Throttled("person")]_vars

(* C13: every request posted for a person while person alerting is enabled   *)
(* has the priority "urgent", whatever the configured ntfyPriority.          *)
C13_PersonIsUrgent ==
    [][\A i \in 1..Len(NewRequests) :
          (NewRequests[i].class = "person" /\ cfg.enable_person_detection) =>
              NewRequests[i].priority = "urgent"]_vars

C13_Witness ==
    /\ cfg.enable_person_detection
    /\ cfg.ntfy_priority = "low"
    /\ \E i \in 1..Len(sent) : sent[i].class = "person" /\ sent[i].priority = "urgent"

(* The entry of class c alone. *)
Restrict(table, c) == [k \in DOMAIN table \cap {c} |-> table[k]]

(* The tables that have the entry of class c as `table` has it, and for the  *)
(* other classes no entry, the time 0 or the time t.                         *)
SameEntry(table, c, t) ==
    {[k \in DOMAIN others \cup (DOMAIN table \cap {c}) |->
         IF k = c THEN table[k] ELSE others[k]] :
       others \in UNION {[D -> {0, t}] : D \in SUBSET (Classes \ {c})}}

(* C14: whether a detection of class c is notified is the same for every     *)
(* content of the other classes' entries of the cooldown table, the check    *)
(* writes nothing, and the recording after the request writes c's entry      *)
(* only.                                                                     *)
C14_CooldownPerClass ==
    [][\A l \in LoopIds, c \in Classes :
          /\ Handles(l, c) =>
                /\ \A table \in SameEntry(last_notification_time, c,
                                            loops[l].current_time) :
                      Notified(table, c, loops[l].current_time) <=> NewRequests # << >>
                /\ UNCHANGED last_notification_time
          /\ (loops[l].pc = "posted" /\ loops'[l] # loops[l]
                  /\ Head(loops[l].detections) = c) =>
                /\ c \in DOMAIN last_notification_time'
                /\ last_notification_time'[c] = loops[l].current_time
                /\ \A k \in Classes \ {c} :
                      Restrict(last_notification_time', k) =
                          Restrict(last_notification_time, k)]_vars

C14_Witness ==
    \E i, j \in 1..Len(sent) :
        /\ sent[i].class = "car"
        /\ sent[j].class = "person"
        /\ sent[j].time - sent[i].time = 5
        /\ last_notification_time = [c \in Classes |-> IF c = "car" THEN 0 ELSE 5]

----------------------------------------------------------------------------
(* Properties of the capture watchdog. *)

(* Loop thread l reads a frame in this step, after read_failures failed      *)
(* reads.                                                                    *)
ReadSucceeds(l) ==
    /\ loops[l].pc = "iter"
    /\ loops'[l].pc = "detect"

(* C15 as claimed: when a read succeeds after N failed reads, the            *)
(* read-failure path has reopened the capture not at all if N < 10 and       *)
(* exactly once if N >= 10.                                                  *)
C15_OneReconnectFromTen ==
    [][\A l \in LoopIds :
          ReadSucceeds(l) =>
              /\ loops[l].read_failures < max_consecutive_errors =>
                    loops[l].forced_reconnects = 0
              /\ loops[l].read_failures >= max_consecutive_errors =>
                    loops[l].forced_reconnects = 1]_vars

(* C15 as amended: when a read succeeds after N failed reads, the            *)
(* read-failure path has reopened the capture once for every 10 failures:    *)
(* not at all if N < 10, once if 10 <= N < 20, twice from N = 20.            *)
C15_OneReconnectPerTen ==
    [][\A l \in LoopIds :
          ReadSucceeds(l) =>
              /\ loops[l].forced_reconnects =
                    loops[l].read_failures \div max_consecutive_errors
              /\ loops[l].read_failures < max_consecutive_errors =>
                    loops[l].forced_reconnects = 0
              /\ (/\ loops[l].read_failures >= max_consecutive_errors
                  /\ loops[l].read_failures < 2 * max_consecutive_errors) =>
                    loops[l].forced_reconnects = 1]_vars

C15_Witness ==
    \E l \in LoopIds :
        /\ loops[l].pc = "iter"
        /\ cap = "open"
        /\ loops[l].read_failures = 2 * max_consecutive_errors
        /\ loops[l].forced_reconnects = 2
        /\ loops[l].consecutive_errors = 0

(* Loop thread l takes the reconnect branch in this step: it finds the       *)
(* capture missing or not opened and tries to reopen it.                     *)
Reconnects(l) ==
    /\ loops[l].pc = "iter"
    /\ cap # "open"
    /\ loops'[l] # loops[l]

(* C19: every attempt of the reconnect branch that does not give an opened   *)
(* capture, by an unopened handle or by an exception, is counted, the count  *)
(* never passes max_reconnect_attempts, and the loop is left at the 5th.     *)
C19_ReconnectAttemptsBounded ==
    [][\A l \in LoopIds :
          /\ loops'[l].reconnect_attempts <= max_reconnect_attempts
          /\ (Reconnects(l) /\ cap' # "open") =>
                /\ loops'[l].reconnect_attempts = loops[l].reconnect_attempts + 1
                /\ loops'[l].reconnect_attempts >= max_reconnect_attempts =>
                      loops'[l].pc = "cleanup"]_vars

(* C20: a reconnect that gives an opened capture leaves the thread's         *)
(* consecutive_errors at zero.                                               *)
C20_ReconnectResetsErrors ==
    [][\A l \in LoopIds :
          (Reconnects(l) /\ cap' = "open") => loops'[l].consecutive_errors = 0]_vars

----------------------------------------------------------------------------
(* Properties of the heartbeat monitor. *)

(* The monitor's restart ends in this step with a failure: start_detection   *)
(* returned False or raised.                                                 *)
RestartFails == mon \in {"restart", "restart_fail"} /\ mon' = "poll"

(* The monitor's restart ends in this step with success. *)
RestartSucceeds == mon = "restart_ok" /\ mon' = "poll"

(* C16: a step of the monitor at its poll (no loop or request thread moves)  *)
(* that finds the session active, the detector not running and settings      *)
(* stored goes on to the restart (stop_detection, then start_detection); the *)
(* start takes the stored settings; and when it succeeds the session is      *)
(* active and the frame callback is registered.                              *)
C16_MonitorRestartsDetector ==
    [][/\ (mon = "poll" /\ detection_active /\ ~is_running
              /\ current_settings # NoSettings /\ UNCHANGED <<loops, req>>) =>
             mon' = "restart"
       /\ (mon = "restart" /\ mon' = "restart_open") =>
             cfg' = ConfigOf(current_settings)
       /\ RestartSucceeds => (detection_active' /\ frame_callback')]_vars

(* C17: a failed restart of the monitor leaves the session not active and    *)
(* the frame slot empty; and the session goes from active to not active only *)
(* by that step or by the /stop handler.                                     *)
C17_RestartFailureMarksFailed ==
    [][/\ RestartFails => (~detection_active' /\ latest_frame' = None)
       /\ (detection_active /\ ~detection_active') =>
             \/ RestartFails
             \/ \E r \in ReqIds : req[r].pc = "stop_ok" /\ req'[r].pc = "idle"]_vars

C17_Witness ==
    /\ mon = "poll"
    /\ ~detection_active
    /\ current_settings # NoSettings
    /\ latest_frame = None
    /\ ~is_running
    /\ \E r \in ReqIds : req[r].pc = "stop_ok"

(* C18: when the monitor's restart opens the capture no opened capture is    *)
(* in detector.cap (none is overwritten unreleased), and a loop thread that  *)
(* left its loop on a stop does not release, in its cleanup, the capture of  *)
(* a detector that has been started again.                                   *)
C18_RestartAfterRelease ==
    [][/\ (mon = "restart_open" /\ mon' # mon) => cap # "open"
       /\ \A l \in LoopIds :
             (/\ loops[l].pc = "cleanup"
              /\ loops'[l].pc = "dead"
              /\ loops[l].reconnect_attempts < max_reconnect_attempts
              /\ is_running) => cap # "open"]_vars

----------------------------------------------------------------------------
(* Properties of the end of the detection loop. *)

(* Thread l leaves its loop in this step by the break of the exhausted       *)
(* reconnect attempts; it ends in this step after that break.                *)
GivesUp(l) == loops[l].pc = "iter" /\ loops'[l].pc = "cleanup"

ExitsAfterGivingUp(l) ==
    /\ loops[l].pc = "cleanup"
    /\ loops[l].reconnect_attempts >= max_reconnect_attempts
    /\ loops'[l].pc = "dead"

(* C21: the step by which a loop thread gives up on the exhausted reconnect  *)
(* attempts and the cleanup with which it ends leave detector.is_running,    *)
(* detection_active, the stored settings and the detector's fields set from  *)
(* them as they were.                                                        *)
C21_ExitKeepsSessionState ==
    [][\A l \in LoopIds :
          (GivesUp(l) \/ ExitsAfterGivingUp(l)) =>
              UNCHANGED <<is_running, detection_active, current_settings, cfg>>]_vars

C21_Witness ==
    /\ \A l \in LoopIds : ~Alive(l)
    /\ is_running
    /\ detection_active
    /\ current_settings = WithPersonDefault(SettingsA)
    /\ cap = None

(* Thread l leaves the while loop in this step. *)
LeavesLoop(l) == InLoop(l) /\ ~InLoop(l)'

(* A step of thread l in which an exception is raised or a read gives no     *)
(* frame: in the inference or the annotation, in cap.read(), in the post of  *)
(* send_notification.                                                        *)
Raises(l) ==
    \/ loops[l].pc = "detect" /\ loops'[l].pc = "caught"
    \/ loops'[l].read_failures = loops[l].read_failures + 1
    \/ /\ loops[l].pc = "process"
       /\ loops'[l] # loops[l]
       /\ Len(sent') > Len(sent)
       /\ sent'[Len(sent')].response = "raised"

(* C22: a loop thread leaves its loop only at the check of a cleared running *)
(* flag or by the break of the exhausted reconnect attempts, and the flag is *)
(* cleared only by the stop_detection of a /stop; a step in which an         *)
(* exception is raised leaves the thread in its loop, and after the handler  *)
(* of a caught exception the thread is at the top of the loop.               *)
C22_LoopEndsOnlyByFailureOrStop ==
    [][/\ \A l \in LoopIds :
             /\ LeavesLoop(l) =>
                   \/ loops[l].pc = "top" /\ ~is_running
                   \/ /\ GivesUp(l)
                      /\ cap # "open" /\ cap' # "open"
                      /\ loops'[l].reconnect_attempts >= max_reconnect_attempts
             /\ Raises(l) => InLoop(l)'
             /\ (loops[l].pc = "caught" /\ loops'[l] # loops[l]) => loops'[l].pc = "top"
       /\ (is_running /\ ~is_running') =>
             \E r \in ReqIds : req[r].pc = "stop" /\ req'[r].pc = "stop_ok"]_vars

C22_Witness ==
    \E l \in LoopIds :
        /\ loops[l].pc = "caught"
        /\ is_running
        /\ \E i \in 1..Len(sent) : sent[i].response = "raised"
        /\ Len(logged) = 1

(* C23: a loop thread that is alive while the running flag is cleared (the   *)
(* loop of a stopped session) eventually ends, whatever the requests that    *)
(* follow the stop.                                                          *)
C23_StoppedLoopEnds ==
    \A l \in LoopIds : (Alive(l) /\ ~is_running) ~> ~Alive(l)

----------------------------------------------------------------------------
(* Properties of the frame slot. *)

(* C24: the generator never fails; when its locked read of a pass copied the *)
(* slot it yields that frame, and when the locked read found the slot empty  *)
(* (cleared after the check without the lock) it yields the placeholder, as  *)
(* it does when the check without the lock finds the slot empty.             *)
C24_FeedYieldsNewestOrPlaceholder ==
    [][/\ feed'.pc # "failed"
       /\ (feed.pc = "encode" /\ feed' # feed) =>
             feed'.emitted = IF feed.copied THEN "frame" ELSE "placeholder"
       /\ (feed.pc = "check" /\ feed' # feed /\ latest_frame = None) =>
             feed'.emitted = "placeholder"]_vars

(* C25: the slot is written only by a thread that has the lock (never while  *)
(* another thread holds it); the lock is held only by a generator between    *)
(* its acquisition and its copy, and the step that copies releases it: it is *)
(* free while a generator encodes or yields and while a loop thread reads,   *)
(* infers or sleeps.                                                         *)
C25_SlotWrittenUnderLock ==
    [][/\ latest_frame' # latest_frame =>
             (latest_frame_lock = None /\ latest_frame_lock' = None)
       /\ latest_frame_lock' # None => feed'.pc = "copy"
       /\ (feed.pc = "copy" /\ feed' # feed) => latest_frame_lock' = None]_vars

C25_Witness ==
    /\ latest_frame_lock = "feed"
    /\ latest_frame = Frame
    /\ frame_callback
    /\ \E l \in LoopIds : loops[l].pc = "detect"
    /\ \E r \in ReqIds : req[r].pc = "stop_ok"

----------------------------------------------------------------------------
(* Properties of the heartbeat. *)

(* detector.get_last_heartbeat_age() *)
HeartbeatAge == now - last_heartbeat

(* The monitor makes its pass in this step and finds the session active. *)
MonitorPasses ==
    /\ mon = "poll"
    /\ detection_active
    /\ last_heartbeat' = now
    /\ UNCHANGED <<loops, req, now>>

(* C26: a pass of the monitor that finds the session active and the         *)
(* heartbeat older than three times the heartbeat interval goes on to the    *)
(* restart (stop_detection, then start_detection with the stored settings).  *)
C26_StaleHeartbeatRestarts ==
    [][(MonitorPasses /\ HeartbeatAge > 3 * heartbeat_interval) =>
          mon' = "restart"]_vars

----------------------------------------------------------------------------
(* Properties of the recording of notification times. *)

(* Thread l is done with a detection of class c in this step. *)
FinishesDetection(l, c) ==
    /\ loops[l].pc \in {"process", "posted"}
    /\ Head(loops[l].detections) = c
    /\ loops'[l] # loops[l]
    /\ loops'[l].pc # "posted"

(* The entries of a sequence of posts that are for one class are more than   *)
(* the cooldown apart.                                                       *)
OncePerWindow(posts) ==
    \A i, j \in 1..Len(posts) :
        (i < j /\ posts[i].class = posts[j].class) =>
            posts[j].time - posts[i].time > notification_cooldown

(* C27: when a loop thread is done with a detection that qualified (its      *)
(* class had no entry in the table, or one older than the cooldown) the      *)
(* table has the detection's time for the class, with and without a topic;   *)
(* and the notifications and the log rows of a class are more than the       *)
(* cooldown apart.                                                           *)
C27_QualifyingDetectionRecorded ==
    [][/\ \A l \in LoopIds, c \in Classes :
             (/\ FinishesDetection(l, c)
              /\ \/ loops[l].pc = "posted"
                 \/ CooldownElapsed(last_notification_time, c, loops[l].current_time)) =>
                   /\ c \in DOMAIN last_notification_time'
                   /\ last_notification_time'[c] = loops[l].current_time
       /\ OncePerWindow(sent')
       /\ OncePerWindow(logged')]_vars

----------------------------------------------------------------------------
(* Properties of the session flags. *)

(* A POST /start (with a locator) passes the test of the handler and the     *)
(* test of detector.start_detection; a POST /stop passes the test of the     *)
(* handler and the test of detector.stop_detection.                          *)
StartAccepted == ~StartRejected /\ ~is_running

StopAccepted == ~StopRejected /\ is_running

(* C28: whenever no handler and no restart of the monitor is under way, the  *)
(* session is not marked inactive over a running detector (running flag      *)
(* set, a loop thread in its loop, the capture opened), and a /start or a    *)
(* /stop would be accepted.                                                  *)
C28_FlagsConsistent ==
    Quiescent =>
        /\ ~(/\ ~detection_active
             /\ is_running
             /\ cap = "open"
             /\ \E l \in LoopIds : InLoop(l))
        /\ StartAccepted \/ StopAccepted

----------------------------------------------------------------------------
(* Properties of notifications that fail. *)

(* C29: after send_notification has returned the time of the detection is    *)
(* recorded for its class whatever the post gave; and no request for a class *)
(* follows a request for it that failed (another status than 200, or an      *)
(* exception) within the cooldown.                                           *)
C29_FailedSendStartsCooldown ==
    [][/\ \A l \in LoopIds :
             (loops[l].pc = "posted" /\ loops'[l] # loops[l]) =>
                 /\ Head(loops[l].detections) \in DOMAIN last_notification_time'
                 /\ last_notification_time'[Head(loops[l].detections)] =
                       loops[l].current_time
       /\ \A i, j \in 1..Len(sent') :
             (/\ i < j
              /\ sent'[i].class = sent'[j].class
              /\ sent'[i].response \notin Delivered) =>
                 sent'[j].time - sent'[i].time > notification_cooldown]_vars

====
